---- MODULE Spec2Model ----
(***************************************************************************)
(* Model of serenity's identifier system (src/model/id.rs) and gateway     *)
(* wire client (src/gateway/ws.rs).                                        *)
(*                                                                         *)
(* A u64 is represented by its eight bytes in little-endian order, so that *)
(* 64-bit arithmetic keeps its width: every sum and product is computed    *)
(* byte by byte with carries, the carry out of the eighth byte being the   *)
(* overflow that a build with overflow checks turns into a panic and a     *)
(* build without them drops (wrapping arithmetic).                         *)
(***************************************************************************)
EXTENDS Integers, Sequences, FiniteSets, TLC

\* ------------------------------------------------------------------------
\* Bounds of the model.
\* ------------------------------------------------------------------------

\* Longest text handed to the parser, in bytes (three 8-byte chunks + rest).
MaxLen == 25

\* ------------------------------------------------------------------------
\* 64-bit unsigned arithmetic on little-endian byte arrays.
\* ------------------------------------------------------------------------

Idx8 == 1..8

\* The u64 whose value is the small natural k (k < 2^31).
U64(k) ==
    [i \in Idx8 |-> IF i = 1 THEN k % 256
                    ELSE IF i = 2 THEN (k \div 256) % 256
                    ELSE IF i = 3 THEN (k \div 65536) % 256
                    ELSE IF i = 4 THEN (k \div 16777216) % 256
                    ELSE 0]

\* u64::MAX
U64_MAX == [i \in Idx8 |-> 255]

RECURSIVE BitAnd(_, _)
\* a & b on naturals.
BitAnd(a, b) ==
    IF a = 0 \/ b = 0 THEN 0
    ELSE (a % 2) * (b % 2) + 2 * BitAnd(a \div 2, b \div 2)

\* n & mask on u64.
And64(n, mask) == [i \in Idx8 |-> BitAnd(n[i], mask[i])]

\* n >> (8 * k) on u64.
ShrBytes(n, k) == [i \in Idx8 |-> IF i + k <= 8 THEN n[i + k] ELSE 0]

RECURSIVE AddCarry(_, _, _, _)
\* Bytes i..8 of a + b + carry, followed by the carry out of byte 8.
AddCarry(a, b, i, carry) ==
    IF i > 8 THEN <<carry>>
    ELSE LET t == a[i] + b[i] + carry
         IN  <<t % 256>> \o AddCarry(a, b, i + 1, t \div 256)

RECURSIVE MulCarry(_, _, _, _)
\* Bytes i..8 of n * c + carry for a small natural c, followed by the carry
\* out of byte 8.
MulCarry(n, c, i, carry) ==
    IF i > 8 THEN <<carry>>
    ELSE LET t == n[i] * c + carry
         IN  <<t % 256>> \o MulCarry(n, c, i + 1, t \div 256)

\* The low 64 bits of a nine-element result of AddCarry / MulCarry.
Low64(r) == [i \in Idx8 |-> r[i]]

\* a + b, wrapping.
WrappingAdd(a, b) == Low64(AddCarry(a, b, 1, 0))

\* n * c for a natural c <= 10000, wrapping.
WrappingMul(n, c) == Low64(MulCarry(n, c, 1, 0))

\* ------------------------------------------------------------------------
\* Outcomes of the operations: Option / Result values and panics.
\* ------------------------------------------------------------------------

Zero64 == [i \in Idx8 |-> 0]

Some(v) == [tag |-> "Some", v |-> v]
None    == [tag |-> "None", v |-> Zero64]
Ok(v)   == [tag |-> "Ok", v |-> v]
Err     == [tag |-> "Err", v |-> Zero64]
Panic   == [tag |-> "Panic", v |-> Zero64]
Unset   == [tag |-> "Unset", v |-> Zero64]

\* A value together with the record of whether an arithmetic step that
\* produced it overflowed.
Checked(v, o) == [v |-> v, o |-> o]

\* ------------------------------------------------------------------------
\* snowflake: the decimal parser (src/model/id.rs, mod snowflake).
\* ------------------------------------------------------------------------

\* b'0'
ASCII_0 == 48

\* b'9'
ASCII_9 == 57

\* b'+'
ASCII_PLUS == 43

IsDigit(b) == ASCII_0 <= b /\ b <= ASCII_9

\* The u8 subtraction b - b'0': the wrapped difference, and whether it
\* underflows.
SubAscii0(b) == Checked((b + 256 - ASCII_0) % 256, b < ASCII_0)

\* One iteration of simple_parse's loop: n = n * 10 + (b - b'0') as u64.
simple_parse_step(n, b) ==
    LET d == SubAscii0(b)
        r == MulCarry(n.v, 10, 1, d.v)
    IN  Checked(Low64(r), n.o \/ d.o \/ r[9] # 0)

RECURSIVE simple_parse(_, _)
simple_parse(n, s) ==
    IF s = <<>> THEN n
    ELSE simple_parse(simple_parse_step(n, Head(s)), Tail(s))

\* u64::from_le_bytes: byte i of the array is byte i of the integer, least
\* significant first.
from_le_bytes(s) == [i \in Idx8 |-> s[i]]

\* 0x0f000f000f000f00, 0x000f000f000f000f
MASK_ODD_1  == <<0, 15, 0, 15, 0, 15, 0, 15>>
MASK_EVEN_1 == <<15, 0, 15, 0, 15, 0, 15, 0>>
\* 0x00ff000000ff0000, 0x000000ff000000ff
MASK_ODD_2  == <<0, 0, 255, 0, 0, 0, 255, 0>>
MASK_EVEN_2 == <<255, 0, 0, 0, 255, 0, 0, 0>>
\* 0x0000ffff00000000, 0x000000000000ffff
MASK_ODD_4  == <<0, 0, 0, 0, 255, 255, 0, 0>>
MASK_EVEN_4 == <<255, 255, 0, 0, 0, 0, 0, 0>>

\* One round of parse_eight: ((n & odd) >> 8k) + ((n & even) * scale).
combine(n, odd, even, k, scale) ==
    LET hi == ShrBytes(And64(n.v, odd), k)
        lo == MulCarry(And64(n.v, even), scale, 1, 0)
        r  == AddCarry(hi, Low64(lo), 1, 0)
    IN  Checked(Low64(r), n.o \/ lo[9] # 0 \/ r[9] # 0)

\* parse_eight with the last round scaled by 1000 instead of 10000.
parse_eight_short_scale(s) ==
    LET n0 == Checked(from_le_bytes(s), FALSE)
        n1 == combine(n0, MASK_ODD_1, MASK_EVEN_1, 1, 10)
        n2 == combine(n1, MASK_ODD_2, MASK_EVEN_2, 2, 100)
    IN  combine(n2, MASK_ODD_4, MASK_EVEN_4, 4, 1000)

parse_eight(s) ==
    LET n0 == Checked(from_le_bytes(s), FALSE)
        n1 == combine(n0, MASK_ODD_1, MASK_EVEN_1, 1, 10)
        n2 == combine(n1, MASK_ODD_2, MASK_EVEN_2, 2, 100)
    IN  combine(n2, MASK_ODD_4, MASK_EVEN_4, 4, 10000)

\* pieced::as_with_rest: the leading whole 8-byte chunks and the bytes left.
as_with_rest(x) ==
    LET k == Len(x) \div 8
    IN  [chunks |-> [j \in 1..k |-> SubSeq(x, 8 * (j - 1) + 1, 8 * j)],
         rest   |-> SubSeq(x, 8 * k + 1, Len(x))]

\* parse_eight(a) * 100000000 + parse_eight(b)
join_chunks(a, b) ==
    LET m1 == MulCarry(a.v, 10000, 1, 0)
        m2 == MulCarry(Low64(m1), 10000, 1, 0)
        r  == AddCarry(Low64(m2), b.v, 1, 0)
    IN  Checked(Low64(r), a.o \/ b.o \/ m1[9] # 0 \/ m2[9] # 0 \/ r[9] # 0)

\* The u64 that parse hands to NonZeroU64::new, with its overflow record.
parse_raw(x) ==
    LET p == as_with_rest(x)
    IN  IF Len(p.chunks) = 2
        THEN simple_parse(join_chunks(parse_eight(p.chunks[1]),
                                      parse_eight(p.chunks[2])), p.rest)
        ELSE IF Len(p.chunks) = 1
        THEN simple_parse(parse_eight(p.chunks[1]), p.rest)
        ELSE simple_parse(Checked(Zero64, FALSE), p.rest)

\* NonZeroU64::new_unchecked in the place of NonZeroU64::new.
NonZeroU64_new_unchecked(v) == Some(v)

NonZeroU64_new(v) == IF v = Zero64 THEN None ELSE Some(v)

\* snowflake::parse in a build with (oc) or without overflow checks.
parse(x, oc) ==
    LET n == parse_raw(x)
    IN  IF oc /\ n.o THEN Panic ELSE NonZeroU64_new(n.v)

\* ------------------------------------------------------------------------
\* str::parse::<u64>, the digit-by-digit parse of the standard library.
\* ------------------------------------------------------------------------

RECURSIVE parse_digits(_, _)
\* Left-to-right multiply-accumulate with checked arithmetic.
parse_digits(n, s) ==
    IF s = <<>> THEN Ok(n)
    ELSE IF ~IsDigit(Head(s)) THEN Err
    ELSE LET r == MulCarry(n, 10, 1, Head(s) - ASCII_0)
         IN  IF r[9] # 0 THEN Err ELSE parse_digits(Low64(r), Tail(s))

str_parse_u64(s) ==
    LET digits == IF s # <<>> /\ Head(s) = ASCII_PLUS THEN Tail(s) ELSE s
    IN  IF digits = <<>> THEN Err ELSE parse_digits(Zero64, digits)

\* ------------------------------------------------------------------------
\* Display of a u64: its decimal digits, most significant first.
\* ------------------------------------------------------------------------

RECURSIVE DivRem(_, _, _, _)
\* Long division of bytes i..1 of n by the small natural d, from the most
\* significant byte down: the remainder followed by the quotient's bytes
\* (least significant first).
DivRem(n, d, i, rem) ==
    IF i = 0 THEN <<rem>>
    ELSE LET cur == rem * 256 + n[i]
         IN  DivRem(n, d, i - 1, cur % d) \o <<cur \div d>>

\* n / d and n % d for a u64 n and a small natural d.
Quot(n, d) == LET r == DivRem(n, d, 8, 0) IN [i \in Idx8 |-> r[i + 1]]
Rem(n, d)  == DivRem(n, d, 8, 0)[1]

RECURSIVE decimal_digits(_)
decimal_digits(n) ==
    IF n = Zero64 THEN <<>>
    ELSE decimal_digits(Quot(n, 10)) \o <<ASCII_0 + Rem(n, 10)>>

\* <u64 as fmt::Display>::fmt
to_string(n) == IF n = Zero64 THEN <<ASCII_0>> ELSE decimal_digits(n)

\* ------------------------------------------------------------------------
\* The identifier types generated by id_u64! and their serde glue.
\* ------------------------------------------------------------------------

\* An identifier: the newtype around the stored NonZeroU64.
Id(v) == [tag |-> "Id", v |-> v]

\* Whether an outcome carries a value (an identifier or a NonZeroU64).
Holds(r) == r.tag \in {"Some", "Ok", "Id"}

\* $name::new
new(id) ==
    LET inner == NonZeroU64_new(id)
    IN  IF inner.tag = "Some" THEN Id(inner.v) ELSE Panic

\* $name::get
get(self) == self.v

\* <$name as Default>::default: NonZeroU64::MIN
default == Id(U64(1))

\* <$name as From<u64>>::from
from_u64(id) == new(id)

\* <$name as FromStr>::from_str, in a build with or without debug
\* assertions (da) and overflow checks (oc).
from_str(s, da, oc) ==
    IF da
    THEN LET r == str_parse_u64(s)
             n == IF r.tag = "Ok" THEN NonZeroU64_new(r.v) ELSE None
         IN  IF n.tag = "Some" THEN Ok(n.v) ELSE Err
    ELSE LET r == parse(s, oc)
         IN  IF r.tag = "Panic" THEN Panic
             ELSE IF r.tag = "Some" THEN Ok(r.v) ELSE Err

\* Values at the serde boundary: a string, or a native unsigned or signed
\* integer (the 64 bits of n, two's complement when signed).
JsonStr(chars) == [kind |-> "str", chars |-> chars, n |-> Zero64]
JsonU64(n)     == [kind |-> "u64", chars |-> <<>>, n |-> n]
JsonI64(n)     == [kind |-> "i64", chars |-> <<>>, n |-> n]
JsonNone       == [kind |-> "none", chars |-> <<>>, n |-> Zero64]

\* serialize emitting the bare number (serialize_u64).
serialize_as_number(id) == JsonU64(id)

\* snowflake::serialize: collect_str(&id.get())
serialize(id) == JsonStr(to_string(id))

\* SnowflakeVisitor::visit_u64
visit_u64(value) ==
    LET r == NonZeroU64_new(value)
    IN  IF r.tag = "Some" THEN Ok(r.v) ELSE Err

\* u64::try_from(i64): fails when the sign bit is set.
u64_try_from_i64(value) == IF value[8] >= 128 THEN Err ELSE Ok(value)

\* SnowflakeVisitor::visit_i64
visit_i64(value) ==
    LET u == u64_try_from_i64(value)
    IN  IF u.tag = "Ok" THEN visit_u64(u.v) ELSE Err

\* SnowflakeVisitor::visit_str
visit_str(value, oc) ==
    LET r == parse(value, oc)
    IN  IF r.tag = "Panic" THEN Panic
        ELSE IF r.tag = "Some" THEN Ok(r.v) ELSE Err

\* snowflake::deserialize: deserialize_any hands the value to the visitor
\* method of its kind.
deserialize(json, oc) ==
    IF json.kind = "str" THEN visit_str(json.chars, oc)
    ELSE IF json.kind = "u64" THEN visit_u64(json.n)
    ELSE IF json.kind = "i64" THEN visit_i64(json.n)
    ELSE Err

\* ------------------------------------------------------------------------
\* Timestamp::from_discord_id and $name::created_at.
\* ------------------------------------------------------------------------

\* n >> 22 on u64: two whole bytes and six bits.
Shr22(n) ==
    LET m == ShrBytes(n, 2)
    IN  [i \in Idx8 |-> (m[i] \div 64) + (IF i < 8 THEN (m[i + 1] % 64) * 4 ELSE 0)]

\* The platform epoch in Unix milliseconds, 1420070400000 = 0x14AA2CAB000.
DISCORD_EPOCH == <<0, 176, 202, 162, 74, 1, 0, 0>>

\* Timestamp::from_discord_id: the Unix-millisecond timestamp
\* (id >> 22) + epoch.
from_discord_id(id) == WrappingAdd(Shr22(id), DISCORD_EPOCH)

\* created_at taking the stored value itself for the millisecond count.
created_at_unshifted(self) == get(self)

\* $name::created_at
created_at(self) == from_discord_id(get(self))

\* Timestamp::unix_timestamp: whole seconds.
unix_timestamp(ts) == Quot(ts, 1000)

\* ------------------------------------------------------------------------
\* Inputs of the identifier system.
\* ------------------------------------------------------------------------

\* Bytes that fill a text: '0', '1', '9'.
FillBytes == {48, 49, 57}

\* Bytes placed at one position of a text: the digits above and
\* '+' (43), '/' (47, just below '0'), ':' (58, just above '9'), 'a' (97).
ProbeBytes == FillBytes \cup {43, 47, 58, 97}

\* The text of length len filled with a and holding b at position pos.
FillText(len, a, pos, b) == [i \in 1..len |-> IF i = pos THEN b ELSE a]

\* "18446744073709551615" (u64::MAX), the same plus one, and
\* "175928847299117063" (the identifier of the tests).
TEXT_U64_MAX ==
    <<49, 56, 52, 52, 54, 55, 52, 52, 48, 55, 51, 55, 48, 57, 53, 53, 49, 54, 49, 53>>
TEXT_U64_MAX_PLUS_1 ==
    <<49, 56, 52, 52, 54, 55, 52, 52, 48, 55, 51, 55, 48, 57, 53, 53, 49, 54, 49, 54>>
TEXT_TEST_ID ==
    <<49, 55, 53, 57, 50, 56, 56, 52, 55, 50, 57, 57, 49, 49, 55, 48, 54, 51>>

Texts ==
    {<<>>, TEXT_U64_MAX, TEXT_U64_MAX_PLUS_1, TEXT_TEST_ID}
    \cup {FillText(len, a, pos, b) :
            len \in 1..MaxLen, a \in FillBytes, pos \in 1..MaxLen, b \in ProbeBytes}

\* 175928847299117063 = 0x02715AC102000007
TEST_ID == <<7, 0, 2, 193, 90, 6, 113, 2>>

RECURSIVE Pow10(_)
Pow10(k) == IF k = 0 THEN U64(1) ELSE WrappingMul(Pow10(k - 1), 10)

RECURSIVE Nines(_)
Nines(k) == IF k = 0 THEN Zero64 ELSE Low64(MulCarry(Nines(k - 1), 10, 1, 9))

\* 64-bit integers: zero, the extremes of u64 and i64, the identifier of
\* the tests, the least and greatest value of every decimal length up to
\* 19 digits, and the arrays of one byte b among bytes a.
Integers64 ==
    {Zero64, U64_MAX, TEST_ID}
    \cup {Pow10(k) : k \in 0..19} \cup {Nines(k) : k \in 1..19}
    \cup {[i \in Idx8 |-> IF i = pos THEN b ELSE a] :
            a \in {0, 255}, pos \in Idx8, b \in {0, 1, 127, 128, 255}}

Inputs ==
    {JsonStr(t) : t \in Texts}
    \cup {JsonU64(n) : n \in Integers64}
    \cup {JsonI64(n) : n \in Integers64}

\* ------------------------------------------------------------------------
\* State.
\* ------------------------------------------------------------------------

VARIABLES
    \* -- identifier system
    overflow_checks,   \* the build panics on arithmetic overflow
    debug_assertions,  \* the build has cfg(debug_assertions)
    input,             \* the text or integer handed to the identifier system
    pc,                \* the operation that ran last ("ready": none yet)
    ret,               \* its outcome
    id,                \* the identifier handed to serialize / created_at
    wire,              \* what serialize emitted
    ts,                \* what created_at returned
    \* -- WsClient, receiving half
    inbound,           \* frames and errors the stream holds ready, oldest first
    ended,             \* the stream has terminated: next() yields None
    rpc,               \* "idle", or "waiting" inside timeout(..).await
    elapsed,           \* milliseconds the pending recv_json has waited
    polled,            \* what timeout(TIMEOUT, self.0.next()).await yielded
    result,            \* what recv_json returned
    \* -- WsClient, sending half
    call,              \* the send operation called last, with its arguments
    sink_ok,           \* the sink accepts frames (no transport error)
    outbox,            \* the text frames written to the sink, oldest first
    send_result        \* what the send operation returned

idvars == <<overflow_checks, debug_assertions, input, pc, ret, id, wire, ts>>

recvvars == <<inbound, ended, rpc, elapsed, polled, result>>

sendvars == <<call, sink_ok, outbox, send_result>>

vars == <<idvars, recvvars, sendvars>>

\* The identifier system before any operation, in the build (oc, da).
IdStart(oc, da) ==
    /\ overflow_checks = oc
    /\ debug_assertions = da
    /\ input = JsonNone
    /\ pc = "ready"
    /\ ret = Unset
    /\ id = Unset
    /\ wire = JsonNone
    /\ ts = Zero64

\* The operation op, called with the input in, returns r.
Return(op, in, r) ==
    /\ pc' = op
    /\ input' = in
    /\ ret' = r
    /\ UNCHANGED <<overflow_checks, debug_assertions, id, wire, ts>>
    /\ UNCHANGED <<recvvars, sendvars>>

Parse ==
    /\ pc = "ready"
    /\ \E t \in Texts :
          Return("parse", JsonStr(t), parse(t, overflow_checks))

FromStr ==
    /\ pc = "ready"
    /\ \E t \in Texts :
          Return("from_str", JsonStr(t),
                 from_str(t, debug_assertions, overflow_checks))

New ==
    /\ pc = "ready"
    /\ \E n \in Integers64 : Return("new", JsonU64(n), new(n))

FromU64 ==
    /\ pc = "ready"
    /\ \E n \in Integers64 : Return("from_u64", JsonU64(n), from_u64(n))

Default ==
    /\ pc = "ready"
    /\ Return("default", JsonNone, default)

Deserialize ==
    /\ pc = "ready"
    /\ \E json \in Inputs :
          Return("deserialize", json, deserialize(json, overflow_checks))

\* The constructors of an identifier type.
Constructors == {"new", "from_u64", "default"}

\* Serialization of an identifier that a constructor returned.
Serialize ==
    /\ pc \in Constructors /\ Holds(ret)
    /\ pc' = "serialize"
    /\ id' = ret
    /\ wire' = serialize(get(ret))
    /\ UNCHANGED <<overflow_checks, debug_assertions, input, ret, ts>>
    /\ UNCHANGED <<recvvars, sendvars>>

\* Deserialization of what Serialize emitted.
DeserializeWire ==
    /\ pc = "serialize"
    /\ Return("deserialize_wire", input, deserialize(wire, overflow_checks))

CreatedAt ==
    /\ pc \in Constructors /\ Holds(ret)
    /\ pc' = "created_at"
    /\ id' = ret
    /\ ts' = created_at(ret)
    /\ UNCHANGED <<overflow_checks, debug_assertions, input, ret, wire>>
    /\ UNCHANGED <<recvvars, sendvars>>

IdNext ==
    \/ Parse
    \/ FromStr
    \/ New
    \/ FromU64
    \/ Default
    \/ Deserialize
    \/ Serialize
    \/ DeserializeWire
    \/ CreatedAt

\* ------------------------------------------------------------------------
\* WsClient::recv_json (src/gateway/ws.rs).
\* ------------------------------------------------------------------------

\* TIMEOUT, in milliseconds.
TIMEOUT == 500

\* Milliseconds by which the clock of a pending recv_json advances at once.
TickMs == 100

\* Most frames the stream holds ready at once.
MaxInbound == 2

\* Text payloads: two that decode to a gateway event and one that does not.
GoodTexts == {"hello", "dispatch"}
Texts_ws == GoodTexts \cup {"garbage"}

\* crate::json::from_str into a GatewayEvent: the event of a well-formed
\* payload, a decode error otherwise.
from_str_event(text) ==
    IF text \in GoodTexts
    THEN [ok |-> TRUE, event |-> [name |-> text]]
    ELSE [ok |-> FALSE, event |-> [name |-> ""]]

\* Binary payloads: the zlib stream of a text, or bytes that are no zlib
\* stream.
Zlib(text) == <<"zlib", text>>
CorruptBytes == <<"corrupt", "">>
Binaries == {Zlib(t) : t \in Texts_ws} \cup {CorruptBytes}

\* ZlibDecoder::new(&bytes[..]).read_to_string(&mut decompressed)
read_to_string(bytes) ==
    IF bytes[1] = "zlib"
    THEN [ok |-> TRUE, text |-> bytes[2]]
    ELSE [ok |-> FALSE, text |-> ""]

\* Close frames: a code and a reason.
CloseFrames == {[code |-> 1000, reason |-> ""], [code |-> 4000, reason |-> "test"]}
NoFrame == [code |-> 0, reason |-> ""]

\* What the stream yields: Ok(Message) or Err(WsError).
Item(k, text, bytes, frame) ==
    [k |-> k, text |-> text, bytes |-> bytes, frame |-> frame]
MsgText(t)    == Item("Text", t, <<"", "">>, NoFrame)
MsgBinary(b)  == Item("Binary", "", b, NoFrame)
MsgClose(f)   == Item("CloseSome", "", <<"", "">>, f)
MsgCloseNone  == Item("CloseNone", "", <<"", "">>, NoFrame)
MsgPing       == Item("Ping", "", <<"", "">>, NoFrame)
MsgPong       == Item("Pong", "", <<"", "">>, NoFrame)
MsgFrame      == Item("Frame", "", <<"", "">>, NoFrame)
WsErr         == Item("Err", "", <<"", "">>, NoFrame)
\* What timeout(..).await yields besides an item: Ok(None), Err(Elapsed).
StreamEnd     == Item("None", "", <<"", "">>, NoFrame)
Elapsed       == Item("Elapsed", "", <<"", "">>, NoFrame)
NotPolled     == Item("", "", <<"", "">>, NoFrame)

Items ==
    {MsgText(t) : t \in Texts_ws} \cup {MsgBinary(b) : b \in Binaries}
    \cup {MsgClose(f) : f \in CloseFrames}
    \cup {MsgCloseNone, MsgPing, MsgPong, MsgFrame, WsErr}

\* What recv_json returns.
Outcome(tag, event, frame) == [tag |-> tag, event |-> event, frame |-> frame]
NoEvent      == [name |-> ""]
OkSome(e)    == Outcome("Ok(Some)", e, NoFrame)
OkNone       == Outcome("Ok(None)", NoEvent, NoFrame)
ErrWs        == Outcome("Err(Tungstenite)", NoEvent, NoFrame)
ErrIo        == Outcome("Err(Io)", NoEvent, NoFrame)
ErrJson      == Outcome("Err(Json)", NoEvent, NoFrame)
ErrClosed(f) == Outcome("Err(Gateway(Closed(Some)))", NoEvent, f)
Pending      == Outcome("", NoEvent, NoFrame)

\* decoded with the decode failure swallowed: nothing instead of the error.
decoded_swallowed(text) ==
    LET d == from_str_event(text)
    IN  IF d.ok THEN OkSome(d.event) ELSE OkNone

\* The value from_str yields, or the error that `?` returns.
decoded(text) ==
    LET d == from_str_event(text)
    IN  IF d.ok THEN OkSome(d.event) ELSE ErrJson

\* recv_json answering a close frame without payload with Closed(None).
recv_json_close_none_is_error(p) ==
    IF p.k = "Err" THEN ErrWs
    ELSE IF p.k \in {"None", "Elapsed"} THEN OkNone
    ELSE IF p.k = "Binary"
    THEN LET z == read_to_string(p.bytes)
         IN  IF z.ok THEN decoded(z.text) ELSE ErrIo
    ELSE IF p.k = "Text" THEN decoded(p.text)
    ELSE IF p.k = "CloseSome" THEN ErrClosed(p.frame)
    ELSE IF p.k = "CloseNone"
    THEN Outcome("Err(Gateway(Closed(None)))", NoEvent, NoFrame)
    ELSE OkNone

\* recv_json answering a close frame with Closed(None), the frame dropped.
recv_json_frame_dropped(p) ==
    IF p.k = "Err" THEN ErrWs
    ELSE IF p.k \in {"None", "Elapsed"} THEN OkNone
    ELSE IF p.k = "Binary"
    THEN LET z == read_to_string(p.bytes)
         IN  IF z.ok THEN decoded(z.text) ELSE ErrIo
    ELSE IF p.k = "Text" THEN decoded(p.text)
    ELSE IF p.k = "CloseSome" THEN ErrClosed(NoFrame)
    ELSE OkNone

\* recv_json answering an expired wait with an error.
recv_json_elapsed_is_error(p) ==
    IF p.k \in {"Err", "Elapsed"} THEN ErrWs
    ELSE IF p.k = "None" THEN OkNone
    ELSE IF p.k = "Binary"
    THEN LET z == read_to_string(p.bytes)
         IN  IF z.ok THEN decoded(z.text) ELSE ErrIo
    ELSE IF p.k = "Text" THEN decoded(p.text)
    ELSE IF p.k = "CloseSome" THEN ErrClosed(p.frame)
    ELSE OkNone

\* The body of recv_json from the value p of timeout(..).await on.
recv_json(p) ==
    IF p.k = "Err" THEN ErrWs
    ELSE IF p.k \in {"None", "Elapsed"} THEN OkNone
    ELSE IF p.k = "Binary"
    THEN LET z == read_to_string(p.bytes)
         IN  IF z.ok THEN decoded(z.text) ELSE ErrIo
    ELSE IF p.k = "Text" THEN decoded(p.text)
    ELSE IF p.k = "CloseSome" THEN ErrClosed(p.frame)
    ELSE OkNone

\* tokio::time::timeout: the deadline of a wait of e milliseconds has passed.
deadline_passed(e) == e >= TIMEOUT

RecvStart ==
    /\ inbound = <<>>
    /\ ended = FALSE
    /\ rpc = "idle"
    /\ elapsed = 0
    /\ polled = NotPolled
    /\ result = Pending

\* The transport makes a frame or an error ready.
Arrive ==
    /\ ~ended /\ Len(inbound) < MaxInbound
    /\ \E m \in Items : inbound' = Append(inbound, m)
    /\ UNCHANGED <<ended, rpc, elapsed, polled, result>>
    /\ UNCHANGED <<idvars, sendvars>>

\* The stream terminates.
StreamEnds ==
    /\ ~ended
    /\ ended' = TRUE
    /\ UNCHANGED <<inbound, rpc, elapsed, polled, result>>
    /\ UNCHANGED <<idvars, sendvars>>

\* recv_json is called and suspends in timeout(TIMEOUT, self.0.next()).
RecvCall ==
    /\ rpc = "idle"
    /\ rpc' = "waiting"
    /\ elapsed' = 0
    /\ polled' = NotPolled
    /\ result' = Pending
    /\ UNCHANGED <<inbound, ended>>
    /\ UNCHANGED <<idvars, sendvars>>

\* Time passes while recv_json waits.
Tick ==
    /\ rpc = "waiting" /\ ~deadline_passed(elapsed)
    /\ elapsed' = elapsed + TickMs
    /\ UNCHANGED <<inbound, ended, rpc, polled, result>>
    /\ UNCHANGED <<idvars, sendvars>>

\* recv_json resumes with p and runs to its return.
Resume(p) ==
    /\ rpc' = "idle"
    /\ polled' = p
    /\ result' = recv_json(p)
    /\ UNCHANGED <<ended, elapsed>>
    /\ UNCHANGED <<idvars, sendvars>>

\* next() yields the oldest ready item.
RecvItem ==
    /\ rpc = "waiting" /\ inbound # <<>>
    /\ inbound' = Tail(inbound)
    /\ Resume(Head(inbound))

\* next() yields None: the stream has terminated.
RecvEnd ==
    /\ rpc = "waiting" /\ inbound = <<>> /\ ended
    /\ UNCHANGED inbound
    /\ Resume(StreamEnd)

\* Nothing is ready and the deadline has passed: timeout yields Err(Elapsed).
RecvTimeout ==
    /\ rpc = "waiting" /\ inbound = <<>> /\ ~ended
    /\ deadline_passed(elapsed)
    /\ UNCHANGED inbound
    /\ Resume(Elapsed)

RecvNext ==
    \/ Arrive
    \/ StreamEnds
    \/ RecvCall
    \/ Tick
    \/ RecvItem
    \/ RecvEnd
    \/ RecvTimeout

\* ------------------------------------------------------------------------
\* The outbound control messages and the five send operations.
\* ------------------------------------------------------------------------

\* Most frames kept in the outbox.
MaxSent == 1

\* Option<T>: d stands in the place of the value of None.
SomeOf(v) == [some |-> TRUE, v |-> v]
NoneOf(d) == [some |-> FALSE, v |-> d]

\* JSON values as the serializer emits them.
JNull     == [t |-> "null", x |-> 0]
JBool(b)  == [t |-> "bool", x |-> b]
JNum(n)   == [t |-> "num", x |-> n]
JText(s)  == [t |-> "str", x |-> s]
JArr(a)   == [t |-> "arr", x |-> a]
JObj(f)   == [t |-> "obj", x |-> f]

\* An identifier field: snowflake::serialize emits the decimal string.
JId(i) == JText(serialize(get(i)).chars)

\* <Option<u64> as Serialize>: serialize_none / serialize_some.
ser_option_u64(o) == IF o.some THEN JNum(o.v) ELSE JNull

\* ChunkGuildMessage serialized without skip_serializing_if: an absent
\* field is emitted as null.
ser_chunk_guild_nulls(m) ==
    JObj([user_ids |-> IF m.user_ids.some
                       THEN JArr([i \in 1..Len(m.user_ids.v) |-> JId(m.user_ids.v[i])])
                       ELSE JNull,
          query    |-> IF m.query.some THEN JText(m.query.v) ELSE JNull,
          guild_id |-> JId(m.guild_id),
          nonce    |-> JText(m.nonce),
          limit    |-> JNum(m.limit)])

\* #[derive(Serialize)] for ChunkGuildMessage, with its two fields marked
\* skip_serializing_if = "Option::is_none".
ser_chunk_guild(m) ==
    LET present == {"guild_id", "nonce", "limit"}
                   \cup (IF m.user_ids.some THEN {"user_ids"} ELSE {})
                   \cup (IF m.query.some THEN {"query"} ELSE {})
    IN  JObj([k \in present |->
                CASE k = "user_ids" ->
                       JArr([i \in 1..Len(m.user_ids.v) |-> JId(m.user_ids.v[i])])
                  [] k = "query"    -> JText(m.query.v)
                  [] k = "guild_id" -> JId(m.guild_id)
                  [] k = "nonce"    -> JText(m.nonce)
                  [] k = "limit"    -> JNum(m.limit)])

\* #[derive(Serialize)] for PresenceUpdateMessage.
ser_presence(m) ==
    JObj([afk        |-> JBool(m.afk),
          status     |-> JText(m.status),
          since      |-> JNum(m.since),
          activities |-> JArr([i \in 1..Len(m.activities) |->
                                  JObj([name |-> JText(m.activities[i])])])])

\* #[derive(Serialize)] for IdentifyProperties.
ser_properties(m) ==
    JObj([browser |-> JText(m.browser), device |-> JText(m.device),
          os |-> JText(m.os)])

\* #[derive(Serialize)] #[serde(untagged)] for WebSocketMessageData: the
\* content of the variant, without a tag.
ser_data(d) ==
    CASE d.variant = "Heartbeat"      -> ser_option_u64(d.seq)
      [] d.variant = "ChunkGuild"     -> ser_chunk_guild(d.msg)
      [] d.variant = "Identify"       ->
           JObj([compress        |-> JBool(d.compress),
                 token           |-> JText(d.token),
                 large_threshold |-> JText(d.large_threshold),
                 shard           |-> JArr(<<JNum(d.shard[1]), JNum(d.shard[2])>>),
                 intents         |-> JNum(d.intents),
                 properties      |-> ser_properties(d.properties),
                 presence        |-> ser_presence(d.presence)])
      [] d.variant = "PresenceUpdate" -> ser_presence(d.msg)
      [] d.variant = "Resume"         ->
           JObj([session_id |-> JText(d.session_id),
                 token      |-> JText(d.token),
                 seq        |-> JNum(d.seq)])

\* #[derive(Serialize)] for WebSocketMessage: both fields, always.
ser_message(m) == JObj([op |-> JText(m.op), d |-> ser_data(m.d)])

\* Option::unwrap_or
unwrap_or(o, d) == IF o.some THEN o.v ELSE d

\* filter_fields keeping the empty query beside an explicit user-id list.
filter_fields_both(filter) ==
    CASE filter.kind = "None"    -> <<SomeOf(""), NoneOf(<<>>)>>
      [] filter.kind = "Query"   -> <<SomeOf(filter.query), NoneOf(<<>>)>>
      [] filter.kind = "UserIds" -> <<SomeOf(""), SomeOf(filter.user_ids)>>

\* The (query, user_ids) pair send_chunk_guild derives from the filter.
filter_fields(filter) ==
    CASE filter.kind = "None"    -> <<SomeOf(""), NoneOf(<<>>)>>
      [] filter.kind = "Query"   -> <<SomeOf(filter.query), NoneOf(<<>>)>>
      [] filter.kind = "UserIds" -> <<NoneOf(""), SomeOf(filter.user_ids)>>

\* The message send_chunk_guild builds.
chunk_guild_message(c) ==
    LET qu == filter_fields(c.filter)
    IN  [op |-> "RequestGuildMembers",
         d  |-> [variant |-> "ChunkGuild",
                 msg |-> [guild_id |-> c.guild_id,
                          user_ids |-> qu[2],
                          query    |-> qu[1],
                          limit    |-> unwrap_or(c.limit, 0),
                          nonce    |-> unwrap_or(c.nonce, "")]]]

\* The message send_heartbeat builds.
heartbeat_message(c) ==
    [op |-> "Heartbeat", d |-> [variant |-> "Heartbeat", seq |-> c.seq]]

\* presence.activity.iter().collect(): no or one activity.
activities_of(presence) ==
    IF presence.activity.some THEN <<presence.activity.v>> ELSE <<>>

\* The PresenceUpdateMessage of send_identify and send_presence_update.
presence_message(presence, now) ==
    [afk |-> FALSE, since |-> now, status |-> presence.status,
     activities |-> activities_of(presence)]

\* The message send_identify builds.
identify_message(c) ==
    [op |-> "Identify",
     d  |-> [variant |-> "Identify",
             token |-> c.token, shard |-> c.shard, intents |-> c.intents,
             compress |-> TRUE, large_threshold |-> "LARGE_THRESHOLD",
             properties |-> [browser |-> "serenity", device |-> "serenity",
                             os |-> "consts::OS"],
             presence |-> presence_message(c.presence, c.now)]]

\* The message send_presence_update builds.
presence_update_message(c) ==
    [op |-> "PresenceUpdate",
     d  |-> [variant |-> "PresenceUpdate",
             msg |-> presence_message(c.presence, c.now)]]

\* The message send_resume builds.
resume_message(c) ==
    [op |-> "Resume",
     d  |-> [variant |-> "Resume", session_id |-> c.session_id,
             token |-> c.token, seq |-> c.seq]]

\* Arguments of the send operations.
GuildIds == {Id(U64(42))}
UserIdLists == {<<>>, <<Id(U64(7))>>, <<Id(U64(7)), Id(TEST_ID)>>}
Filters ==
    {[kind |-> "None", query |-> "", user_ids |-> <<>>]}
    \cup {[kind |-> "Query", query |-> q, user_ids |-> <<>>] : q \in {"", "ab"}}
    \cup {[kind |-> "UserIds", query |-> "", user_ids |-> u] : u \in UserIdLists}
Limits == {NoneOf(0), SomeOf(0), SomeOf(50)}
Nonces == {NoneOf(""), SomeOf(""), SomeOf("n1")}
Seqs == {NoneOf(0), SomeOf(0), SomeOf(42)}
Presences ==
    [status : {"online", "idle"}, activity : {NoneOf(""), SomeOf("playing")}]
Tokens == {"token"}
Shards == {<<0, 1>>}

SendStart ==
    /\ call = [op |-> "none"]
    /\ sink_ok = TRUE
    /\ outbox = <<>>
    /\ send_result = "none"

\* The transport of the sending half fails.
SinkBreaks ==
    /\ sink_ok
    /\ sink_ok' = FALSE
    /\ UNCHANGED <<call, outbox, send_result>>
    /\ UNCHANGED <<idvars, recvvars>>

\* send_json: the value serialized to text and written as one text frame;
\* a transport error is returned and nothing is written.
send_json(c, value) ==
    /\ call' = c
    /\ IF sink_ok
       THEN outbox' = Append(outbox, ser_message(value)) /\ send_result' = "Ok"
       ELSE outbox' = outbox /\ send_result' = "Err"
    /\ UNCHANGED sink_ok
    /\ UNCHANGED <<idvars, recvvars>>

SendChunkGuild ==
    /\ Len(outbox) < MaxSent
    /\ \E g \in GuildIds, l \in Limits, f \in Filters, n \in Nonces :
           LET c == [op |-> "send_chunk_guild", guild_id |-> g, limit |-> l,
                     filter |-> f, nonce |-> n]
           IN  send_json(c, chunk_guild_message(c))

SendHeartbeat ==
    /\ Len(outbox) < MaxSent
    /\ \E s \in Seqs :
           LET c == [op |-> "send_heartbeat", seq |-> s]
           IN  send_json(c, heartbeat_message(c))

SendIdentify ==
    /\ Len(outbox) < MaxSent
    /\ \E t \in Tokens, sh \in Shards, p \in Presences :
           LET c == [op |-> "send_identify", token |-> t, shard |-> sh,
                     intents |-> 513, presence |-> p, now |-> 1000]
           IN  send_json(c, identify_message(c))

SendPresenceUpdate ==
    /\ Len(outbox) < MaxSent
    /\ \E p \in Presences :
           LET c == [op |-> "send_presence_update", presence |-> p, now |-> 1000]
           IN  send_json(c, presence_update_message(c))

SendResume ==
    /\ Len(outbox) < MaxSent
    /\ \E t \in Tokens, s \in {0, 42} :
           LET c == [op |-> "send_resume", session_id |-> "session", seq |-> s,
                     token |-> t]
           IN  send_json(c, resume_message(c))

SendNext ==
    \/ SinkBreaks
    \/ SendChunkGuild
    \/ SendHeartbeat
    \/ SendIdentify
    \/ SendPresenceUpdate
    \/ SendResume

\* ------------------------------------------------------------------------
\* Specifications.
\* ------------------------------------------------------------------------

\* The identifier system in every build; the client untouched.
IdInit ==
    /\ \E oc \in BOOLEAN, da \in BOOLEAN : IdStart(oc, da)
    /\ RecvStart
    /\ SendStart

SpecId == IdInit /\ [][IdNext]_vars

\* The client; the identifier system untouched.
Init ==
    /\ IdStart(FALSE, FALSE)
    /\ RecvStart
    /\ SendStart

SpecRecv == Init /\ [][RecvNext]_vars

\* The scheduling recv_json rests on: the clock advances, a ready item or
\* the end of the stream resumes the waiting task, and the timer fires.
RecvFairness ==
    /\ WF_vars(Tick)
    /\ WF_vars(RecvItem)
    /\ WF_vars(RecvEnd)
    /\ WF_vars(RecvTimeout)

SpecRecvLive == SpecRecv /\ RecvFairness

SpecSend == Init /\ [][SendNext]_vars

\* The three parts share no state, and each is checked under its own
\* specification above; this is their interleaving.
Next == IdNext \/ RecvNext \/ SendNext

Spec == IdInit /\ [][Next]_vars

\* ------------------------------------------------------------------------
\* Properties of the identifier system.
\* ------------------------------------------------------------------------

AllDigits(t) == \A i \in 1..Len(t) : IsDigit(t[i])

AllZeros(t) == \A i \in 1..Len(t) : t[i] = ASCII_0

RECURSIVE LexLessEqFrom(_, _, _)
LexLessEqFrom(s, t, i) ==
    IF i > Len(s) THEN TRUE
    ELSE IF s[i] # t[i] THEN s[i] < t[i]
    ELSE LexLessEqFrom(s, t, i + 1)

\* s <= t for digit strings of the same length.
LexLessEq(s, t) == LexLessEqFrom(s, t, 1)

\* t is the decimal string of some v with 0 < v <= u64::MAX.
IsDecimalOfNonZeroU64(t) ==
    /\ t # <<>> /\ AllDigits(t) /\ t[1] # ASCII_0
    /\ \/ Len(t) < Len(TEXT_U64_MAX)
       \/ Len(t) = Len(TEXT_U64_MAX) /\ LexLessEq(t, TEXT_U64_MAX)

\* t is a digit string without leading zero whose magnitude is above
\* u64::MAX.
ExceedsU64(t) ==
    /\ t # <<>> /\ AllDigits(t) /\ t[1] # ASCII_0
    /\ \/ Len(t) > Len(TEXT_U64_MAX)
       \/ Len(t) = Len(TEXT_U64_MAX) /\ ~LexLessEq(t, TEXT_U64_MAX)

\* C1: for the decimal string of every v with 0 < v <= u64::MAX, parse
\* returns the value v (the value whose decimal rendering is the text), and
\* that value is the one the digit-by-digit parse of the standard library
\* computes, in every build.
C1_ParseMatchesNaive ==
    (pc = "parse" /\ IsDecimalOfNonZeroU64(input.chars)) =>
        /\ ret.tag = "Some"
        /\ to_string(ret.v) = input.chars
        /\ str_parse_u64(input.chars) = Ok(ret.v)

\* C1 at the 20-digit boundary: "18446744073709551615" parsed (two chunks
\* and four trailing bytes).
C1_Witness ==
    /\ pc = "parse" /\ input.chars = TEXT_U64_MAX /\ ret = Some(U64_MAX)

\* C2: parse returns nothing for every text with a byte that is not an
\* ASCII digit.
C2_NonDigitRejected ==
    (pc = "parse" /\ ~AllDigits(input.chars)) => ret = None

\* C3: parse returns nothing for every digit string whose magnitude is
\* above u64::MAX.
C3_OverflowRejected ==
    (pc = "parse" /\ ExceedsU64(input.chars)) => ret = None

\* C4: no identifier holds zero: new(0) and From<u64>(0) panic, new(v) holds
\* v, parse of the empty or an all-'0' text is nothing, deserializing the
\* integer 0 or an all-'0' string is an error, and Default is 1.
C4_NeverZero ==
    /\ Holds(ret) => ret.v # Zero64
    /\ Holds(id) => get(id) # Zero64
    /\ pc \in {"new", "from_u64"} =>
          IF input.n = Zero64 THEN ret = Panic
          ELSE ret.tag = "Id" /\ get(ret) = input.n
    /\ (pc = "parse" /\ AllZeros(input.chars)) => ret = None
    /\ (pc = "deserialize" /\ input.kind \in {"u64", "i64"} /\ input.n = Zero64)
          => ret = Err
    /\ (pc = "deserialize" /\ input.kind = "str" /\ AllZeros(input.chars))
          => ret = Err
    /\ pc = "default" => (ret.tag = "Id" /\ get(ret) = U64(1))

\* C4 where it bites: new(0) has panicked.
C4_Witness == pc = "new" /\ input.n = Zero64 /\ ret = Panic

\* C9: serialize emits the decimal string of the value, never a number;
\* deserializing that string, or the native unsigned or positive signed
\* integer, gives the value back; a negative integer is an error.
C9_SerdeRoundTrip ==
    /\ pc \in {"serialize", "deserialize_wire"} =>
          /\ wire.kind = "str"
          /\ IsDecimalOfNonZeroU64(wire.chars)
          /\ str_parse_u64(wire.chars) = Ok(get(id))
    /\ pc = "deserialize_wire" => ret = Ok(get(id))
    /\ (pc = "deserialize" /\ input.kind = "u64" /\ input.n # Zero64)
          => ret = Ok(input.n)
    /\ (pc = "deserialize" /\ input.kind = "i64" /\ input.n # Zero64
            /\ input.n[8] < 128)
          => ret = Ok(input.n)
    /\ (pc = "deserialize" /\ input.kind = "i64" /\ input.n[8] >= 128)
          => ret = Err

\* C9 at the largest value: u64::MAX serialized and read back.
C9_Witness ==
    /\ pc = "deserialize_wire" /\ get(id) = U64_MAX
    /\ wire = JsonStr(TEXT_U64_MAX) /\ ret = Ok(U64_MAX)

RECURSIVE SubBorrow(_, _, _, _)
\* Bytes i..8 of a - b - borrow, followed by the borrow out of byte 8.
SubBorrow(a, b, i, borrow) ==
    IF i > 8 THEN <<borrow>>
    ELSE LET t == a[i] - b[i] - borrow
         IN  <<(t + 256) % 256>> \o SubBorrow(a, b, i + 1, IF t < 0 THEN 1 ELSE 0)

\* C10: created_at is defined for every identifier, and its millisecond
\* value minus the epoch is the stored value divided by 2^22; for
\* 175928847299117063 it is Unix second 1462015105, millisecond 796.
C10_CreatedAt ==
    pc = "created_at" =>
        /\ SubBorrow(ts, DISCORD_EPOCH, 1, 0)
             = Quot(Quot(get(id), 2048), 2048) \o <<0>>
        /\ get(id) = TEST_ID =>
              /\ unix_timestamp(ts) = U64(1462015105)
              /\ Rem(ts, 1000) = 796

\* C10 on the identifier of the tests.
C10_Witness ==
    /\ pc = "created_at" /\ get(id) = TEST_ID
    /\ unix_timestamp(ts) = U64(1462015105)

\* ------------------------------------------------------------------------
\* Properties of recv_json.
\* ------------------------------------------------------------------------

\* C5: when the frame recv_json pulled is a close frame with a code and a
\* reason, it returns GatewayError::Closed holding that frame unchanged.
C5_CloseSurfaced ==
    (rpc = "idle" /\ polled.k = "CloseSome") =>
        /\ result.tag = "Err(Gateway(Closed(Some)))"
        /\ result.frame = polled.frame
        /\ polled.frame \in CloseFrames

\* C5 on the close frame with code 4000 and reason "test".
C5_Witness ==
    /\ rpc = "idle"
    /\ polled = MsgClose([code |-> 4000, reason |-> "test"])
    /\ result = ErrClosed([code |-> 4000, reason |-> "test"])

\* C6: every pending recv_json returns; it never waits past the budget by
\* more than one clock step; when the budget expires with no frame it
\* returns Ok(None), and that return leaves the stream as it was, open and
\* with recv_json callable again.
C6_RecvReturns ==
    /\ (rpc = "waiting") ~> (rpc = "idle")
    /\ [](elapsed < TIMEOUT + TickMs)
    /\ []((rpc = "idle" /\ polled = Elapsed) =>
             (result = OkNone /\ elapsed >= TIMEOUT /\ ENABLED RecvCall))
    /\ [][(rpc = "waiting" /\ polled' = Elapsed) =>
             (~ended /\ ended' = ended /\ inbound' = inbound)]_vars

\* C6 where it bites: a call has returned Ok(None) at the deadline.
C6_Witness ==
    /\ rpc = "idle" /\ polled = Elapsed /\ result = OkNone
    /\ elapsed >= TIMEOUT /\ ~ended

\* ------------------------------------------------------------------------
\* Properties of the send operations.
\* ------------------------------------------------------------------------

RECURSIVE HasNull(_)
\* The JSON value j is null or holds a null somewhere.
HasNull(j) ==
    \/ j.t = "null"
    \/ j.t = "obj" /\ \E k \in DOMAIN j.x : HasNull(j.x[k])
    \/ j.t = "arr" /\ \E i \in DOMAIN j.x : HasNull(j.x[i])

\* The fields of d in the frame written last.
LastD == outbox[Len(outbox)].x.d

\* The frame written last was written by the call recorded in `call`.
Wrote(op) == call.op = op /\ send_result = "Ok"

\* C7: every chunk request holds exactly one of query and user_ids: no
\* filter gives query = "" alone, a query filter that query alone, a user-id
\* list user_ids alone; a missing limit is 0 and a missing nonce "".
C7_ChunkExactlyOne ==
    /\ \A i \in DOMAIN outbox :
          outbox[i].x.op = JText("RequestGuildMembers") =>
              ("query" \in DOMAIN outbox[i].x.d.x)
                  # ("user_ids" \in DOMAIN outbox[i].x.d.x)
    /\ Wrote("send_chunk_guild") =>
          /\ call.filter.kind = "None" =>
                /\ "query" \in DOMAIN LastD.x /\ LastD.x.query = JText("")
                /\ "user_ids" \notin DOMAIN LastD.x
          /\ call.filter.kind = "Query" =>
                /\ "query" \in DOMAIN LastD.x
                /\ LastD.x.query = JText(call.filter.query)
                /\ "user_ids" \notin DOMAIN LastD.x
          /\ call.filter.kind = "UserIds" =>
                /\ "query" \notin DOMAIN LastD.x
                /\ "user_ids" \in DOMAIN LastD.x
                /\ LastD.x.user_ids.t = "arr"
                /\ Len(LastD.x.user_ids.x) = Len(call.filter.user_ids)
                /\ \A i \in DOMAIN call.filter.user_ids :
                      LastD.x.user_ids.x[i]
                          = JText(to_string(get(call.filter.user_ids[i])))
          /\ ~call.limit.some => LastD.x.limit = JNum(0)
          /\ call.limit.some => LastD.x.limit = JNum(call.limit.v)
          /\ ~call.nonce.some => LastD.x.nonce = JText("")
          /\ call.nonce.some => LastD.x.nonce = JText(call.nonce.v)

\* C7 on a request for two explicit user ids, without limit or nonce.
C7_Witness ==
    /\ Wrote("send_chunk_guild")
    /\ call.filter.kind = "UserIds" /\ Len(call.filter.user_ids) = 2
    /\ ~call.limit.some /\ ~call.nonce.some
    /\ "user_ids" \in DOMAIN LastD.x /\ "query" \notin DOMAIN LastD.x

Report(m) ==
    LET text == IF m.k = "Text" THEN m.text ELSE m.bytes[2]
    IN  IF m.k = "Binary" /\ m.bytes[1] # "zlib" THEN ErrIo
        ELSE IF text \in GoodTexts THEN OkSome([name |-> text])
        ELSE ErrJson

\* C11: the stream's frames leave it one at a time and oldest first, each
\* through the return of the one call that pulled it and never again; a
\* call that pulled a text or binary frame returned its event or its
\* decompression or decode error, never Ok(None).
C11_EachFrameOnce ==
    /\ []((rpc = "idle" /\ polled.k \in {"Text", "Binary"}) =>
             (result = Report(polled) /\ result # OkNone))
    /\ [][inbound' # inbound =>
             \/ /\ \E m \in Items : inbound' = Append(inbound, m)
                /\ UNCHANGED <<rpc, polled, result>>
             \/ /\ inbound # <<>> /\ inbound' = Tail(inbound)
                /\ rpc = "waiting" /\ rpc' = "idle"
                /\ polled' = Head(inbound)]_vars
    /\ [][(rpc = "waiting" /\ rpc' = "idle"
             /\ polled'.k \notin {"None", "Elapsed"}) =>
             (inbound # <<>> /\ polled' = Head(inbound)
                /\ inbound' = Tail(inbound))]_vars

\* C11 where it bites: a call returned the decompression error of the
\* corrupt frame it pulled, and the frame behind it is the oldest now.
C11_Witness ==
    /\ rpc = "idle" /\ polled = MsgBinary(CorruptBytes) /\ result = ErrIo
    /\ inbound = <<MsgText("hello")>>

\* recv_json has returned an error.
IsErr(r) == r.tag \notin {"", "Ok(Some)", "Ok(None)"}

\* C12: a call returns an error only after a transport error, a text or
\* binary frame that fails to decompress or decode, or a close frame with
\* a payload; after a close frame without payload, the end of the stream
\* and the timeout alike it returns Ok(None); and once the stream has
\* ended and is drained, every call from then on returns Ok(None).
C12_SilentClose ==
    /\ [](rpc = "idle" =>
            /\ IsErr(result) =>
                 \/ polled = WsErr /\ result = ErrWs
                 \/ /\ polled.k \in {"Text", "Binary"}
                    /\ result \in {ErrIo, ErrJson}
                    /\ result = Report(polled)
                 \/ /\ polled.k = "CloseSome" /\ polled.frame \in CloseFrames
                    /\ result = ErrClosed(polled.frame)
            /\ polled \in {MsgCloseNone, StreamEnd, Elapsed} =>
                 result = OkNone)
    /\ [][(ended /\ inbound = <<>>) =>
             /\ ended' /\ inbound' = <<>>
             /\ (rpc = "waiting" /\ rpc' = "idle") =>
                  (polled' = StreamEnd /\ result' = OkNone)]_vars

\* C12 where it bites: the last frame of an ended stream was a close frame
\* without payload, and the call that pulled it returned Ok(None).
C12_Witness ==
    /\ ended /\ inbound = <<>>
    /\ rpc = "idle" /\ polled = MsgCloseNone /\ result = OkNone

\* ------------------------------------------------------------------------
\* Properties of FromStr across the build configurations.
\* ------------------------------------------------------------------------

\* C13: FromStr returns in the build that ran it what it returns for the
\* same text in the build with the other debug-assertions setting: the
\* same identifier, or IDFromStrError in both.
C13_FromStrBuildsAgree ==
    (pc = "from_str") =>
        ret = from_str(input.chars, ~debug_assertions, overflow_checks)

====
